---- MODULE Spec2Model ----
(***************************************************************************)
(* PhotoFlow: format detection (processors/detector.rs), processor routing *)
(* (processors/mod.rs), the standard and RAW decoders                      *)
(* (processors/standard.rs, processors/raw.rs) and Photo::load_image       *)
(* (photo.rs).                                                             *)
(*                                                                         *)
(* A file is a byte string.  It is kept in the state as a descriptor       *)
(* (head bytes, number of tail bytes, offset of an ASCII marker in the     *)
(* tail); ByteAt/ReadExact give the bytes the program reads from it.       *)
(***************************************************************************)
EXTENDS Integers, Sequences, FiniteSets, TLC

VARIABLES
    file,        \* the file on disk at the path under consideration
    detected,    \* last call of detect_image_type: its input and its result
    sensor,      \* the RawImage that rawloader::decode_file gave
    raw_out,     \* last conversion of sensor: detected type and result
    raw_prev,    \* the conversion of sensor before that one
    path,        \* the path a load is requested for (its extension)
    processor,   \* the ImageProcessor in hand and the file it was chosen on
    load,        \* last load_image call: decoder that ran and its result
    photo,       \* the Photo made by Photo::new for the path
    requests,    \* calls of Photo::load_image on the path so far
    decodes,     \* decoder runs those calls made
    cache,       \* ImageCache entries, least recently used first
    mtimes,      \* modification time of each cached path's file
    accessed,    \* the paths ever cached, the one accessed last at the end
    got,         \* last get_or_decode step: what it found and did
    decoding,    \* get_or_decode calls that missed and are decoding
    photo_paths, \* PhotoFlow.photo_paths
    photos,      \* PhotoFlow.photos
    current_photo, \* PhotoFlow.current_photo
    error,       \* PhotoFlow.error
    tasks,       \* decode tasks in flight, by path
    dialog,      \* folder dialogs in flight
    handled,     \* the message update handled last
    failed       \* paths whose task ended in Error since the last navigation

detectVars == <<file, detected>>
rawVars == <<sensor, raw_out, raw_prev>>
loadVars == <<path, processor, load>>
photoVars == <<photo, requests, decodes>>
cacheVars == <<cache, mtimes, accessed, got, decoding>>
uiVars == <<photo_paths, photos, current_photo, error, tasks, dialog,
            handled, failed>>
vars == <<file, detected, sensor, raw_out, raw_prev, path, processor, load,
          photo, requests, decodes, cache, mtimes, accessed, got, decoding,
          photo_paths, photos, current_photo, error, tasks, dialog,
          handled, failed>>

\* Option: None and Some(x)
None == <<>>
Some(x) == <<x>>

NoPhoto == [made |-> FALSE, exif |-> None, image |-> None]
NoGot == [extra |-> 0, path |-> 0, outcome |-> "-", hadEntry |-> FALSE,
          stored |-> 0, current |-> 0, evicted |-> 0, before |-> {},
          image |-> 0]
NoMsg == [msg |-> "-", arg |-> None, image |-> None]

\* the parts of the state a subsystem does not use, at rest
IdlePhoto == photo = NoPhoto /\ requests = 0 /\ decodes = 0
IdleCache ==
    /\ cache = <<>> /\ mtimes = <<>> /\ accessed = <<>> /\ got = NoGot
    /\ decoding = {}
IdleUI ==
    /\ photo_paths = <<>> /\ photos = <<>> /\ current_photo = None
    /\ error = None /\ tasks = <<>> /\ dialog = 0
    /\ handled = NoMsg /\ failed = {}

----------------------------------------------------------------------------
(* Magic numbers of detector.rs, as byte strings *)

M_JPEG  == <<255, 216>>
M_PNG   == <<137, 80, 78, 71, 13, 10, 26, 10>>
M_GIF   == <<71, 73, 70>>
M_RIFF  == <<82, 73, 70, 70>>
M_WEBP  == <<87, 69, 66, 80>>
M_TIFF_BE == <<77, 77, 0, 42>>
M_TIFF_LE == <<73, 73, 42, 0>>
M_FUJI  == <<70, 85, 74, 73>>
M_CR2   == <<67, 82, 2>>
M_CR3   == <<67, 82, 3>>
M_NIKON == <<78, 73, 75, 79, 78>>
M_SONY  == <<83, 79, 78, 89>>
M_PANA  == <<73, 73, 85, 0>>
M_CIFF  == <<67, 73, 70, 70>>
M_HEIC  == <<72, 69, 73, 67>>
M_DNGK  == <<68, 78, 71, 75>>
M_EPAK  == <<69, 80, 65, 75>>

raw_markers == <<M_CIFF, M_HEIC, M_DNGK, M_EPAK>>

HeaderLen == 16
ExtendedLen == 4096
NikonWindow == 4

ImageType == {"Jpeg", "Png", "Gif", "Tiff", "WebP", "RawFuji", "RawCanon",
              "RawNikon", "RawSony", "RawPanasonic", "RawGeneric", "Unknown"}

is_raw(t) == t \in {"RawFuji", "RawCanon", "RawNikon", "RawSony",
                    "RawPanasonic", "RawGeneric"}

----------------------------------------------------------------------------
(* Files *)

NoFile == [exists |-> FALSE, head |-> <<>>, tailLen |-> 0, markAt |-> 0]

FileLen(f) == Len(f.head) + f.tailLen

\* byte i (1-based) of the file: the head, then a zero-filled tail that
\* holds the ASCII string NIKON at tail offset markAt (0: no marker)
ByteAt(f, i) ==
    IF i <= Len(f.head) THEN f.head[i]
    ELSE LET t == i - Len(f.head) IN
         IF f.markAt > 0 /\ t >= f.markAt /\ t < f.markAt + Len(M_NIKON)
         THEN M_NIKON[t - f.markAt + 1]
         ELSE 0

\* std::io::Read::read_exact from offset 0: fails when the file is shorter
CanReadExact(f, n) == FileLen(f) >= n

\* slice buf[a..a+Len(m)] == m, on the bytes of the file (0-based a)
SliceEq(f, a, m) == \A j \in 1..Len(m) : ByteAt(f, a + j) = m[j]

\* buf[0..n].windows(w).any(|window| window == m): a window of w bytes
\* equals m only if m has w bytes too
WindowsAny(f, n, w, m) ==
    /\ Len(m) = w
    /\ \E a \in 0..(n - w) : SliceEq(f, a, m)

\* the byte string m occurs in the first n bytes of the file
Contains(f, n, m) ==
    \E a \in 0..(n - Len(m)) : SliceEq(f, a, m)

Ok(t)  == [ok |-> TRUE,  type |-> t,   err |-> "-"]
Err(e) == [ok |-> FALSE, type |-> "-", err |-> e]

NoDetect == [input |-> NoFile, result |-> Err("none")]

IsTiffMagic(f) == SliceEq(f, 0, M_TIFF_BE) \/ SliceEq(f, 0, M_TIFF_LE)

\* detector.rs:84-95: the extended read and the Nikon scan; yields the
\* result of the block, or "fallthrough" when the block does not return
NikonBlock(f) ==
    IF ~CanReadExact(f, ExtendedLen) THEN Err("read_extended")
    ELSE IF WindowsAny(f, ExtendedLen, NikonWindow, M_NIKON) THEN Ok("RawNikon")
    ELSE Err("fallthrough")

\* detect_tail with the generic markers looked for at byte 0 only
detect_tail_at0(f) ==
    IF SliceEq(f, 0, M_SONY) THEN Ok("RawSony")
    ELSE IF SliceEq(f, 0, M_PANA) THEN Ok("RawPanasonic")
    ELSE IF \E k \in 1..Len(raw_markers) : SliceEq(f, 0, raw_markers[k])
         THEN Ok("RawGeneric")
    ELSE Ok("Unknown")

\* detector.rs:97-125, the rules after the Nikon block
detect_tail(f) ==
    IF SliceEq(f, 0, M_SONY) THEN Ok("RawSony")
    ELSE IF SliceEq(f, 0, M_PANA) THEN Ok("RawPanasonic")
    ELSE IF \E k \in 1..Len(raw_markers) :
              WindowsAny(f, HeaderLen, Len(raw_markers[k]), raw_markers[k])
         THEN Ok("RawGeneric")
    ELSE Ok("Unknown")

\* detect_image_type without the return of detector.rs:67, so that a
\* TIFF-magic file goes on to the extended read
detect_image_type_tentative(f) ==
    IF ~f.exists THEN Err("open")
    ELSE IF ~CanReadExact(f, HeaderLen) THEN Err("read_header")
    ELSE IF SliceEq(f, 0, M_JPEG) THEN Ok("Jpeg")
    ELSE IF SliceEq(f, 0, M_PNG) THEN Ok("Png")
    ELSE IF SliceEq(f, 0, M_GIF) THEN Ok("Gif")
    ELSE IF SliceEq(f, 0, M_RIFF) /\ SliceEq(f, 8, M_WEBP) THEN Ok("WebP")
    ELSE IF SliceEq(f, 0, M_FUJI) THEN Ok("RawFuji")
    ELSE IF SliceEq(f, 8, M_CR2) \/ SliceEq(f, 8, M_CR3) THEN Ok("RawCanon")
    ELSE IF IsTiffMagic(f) /\ NikonBlock(f).err # "fallthrough" THEN NikonBlock(f)
    ELSE detect_tail(f)

detect_image_type(f) ==
    IF ~f.exists THEN Err("open")
    ELSE IF ~CanReadExact(f, HeaderLen) THEN Err("read_header")
    ELSE IF SliceEq(f, 0, M_JPEG) THEN Ok("Jpeg")
    ELSE IF SliceEq(f, 0, M_PNG) THEN Ok("Png")
    ELSE IF SliceEq(f, 0, M_GIF) THEN Ok("Gif")
    ELSE IF SliceEq(f, 0, M_RIFF) /\ SliceEq(f, 8, M_WEBP) THEN Ok("WebP")
    ELSE IF IsTiffMagic(f) THEN Ok("Tiff")
    ELSE IF SliceEq(f, 0, M_FUJI) THEN Ok("RawFuji")
    ELSE IF SliceEq(f, 8, M_CR2) \/ SliceEq(f, 8, M_CR3) THEN Ok("RawCanon")
    ELSE IF IsTiffMagic(f) /\ NikonBlock(f).err # "fallthrough" THEN NikonBlock(f)
    ELSE detect_tail(f)

----------------------------------------------------------------------------
(* RAW conversion (raw.rs:64-284).                                         *)
(*                                                                         *)
(* f32 channel values are fixed-point numbers in units of 1/Scale; NaN is  *)
(* the value NaN, which is neither == 0.0 nor > 0.0.  White-balance        *)
(* coefficients are in units of 1/WbUnit.                                  *)

Scale == 65535
WbUnit == 2
NaN == -1
ByteMax == 255

\* the colour table of raw.rs:114-128, XTrans[cfa_y + 1][cfa_x + 1]
XTrans ==
    << <<2, 1, 1, 2, 1, 1>>,
       <<1, 2, 0, 1, 0, 2>>,
       <<1, 0, 1, 2, 1, 0>>,
       <<2, 1, 1, 2, 1, 1>>,
       <<1, 2, 0, 1, 0, 2>>,
       <<1, 0, 1, 2, 1, 0>> >>
XTransPeriod == 6

\* rawloader CFA::color_at(row, col) on a descriptor with pattern rows
color_at(cfa, row, col) ==
    cfa.pattern[(row % cfa.height) + 1][(col % cfa.width) + 1]

\* floor(a * Scale / b) for 0 <= a, 0 < b, in 32-bit steps (Scale = 255 * 257)
MulScaleDiv(a, b) ==
    LET q  == a \div b
        r  == a % b
        x  == r * 255
        q1 == x \div b
        r1 == x % b
    IN  q * Scale + q1 * 257 + (r1 * 257) \div b

\* raw.rs:106-107: ((raw - black) / range).clamp(0.0, 1.0)
Normalize(raw_value, black_level, white_level) ==
    LET range == white_level - black_level
        d == raw_value - black_level
    IN  IF range = 0
        THEN (IF d > 0 THEN Scale ELSE IF d < 0 THEN 0 ELSE NaN)
        ELSE IF (d >= 0) # (range > 0) THEN 0
        ELSE LET ad == IF d < 0 THEN -d ELSE d
                 ar == IF range < 0 THEN -range ELSE range
             IN  IF ad >= ar THEN Scale ELSE MulScaleDiv(ad, ar)

\* raw.rs:131-138: normalized * wb_coeff
ApplyWb(normalized, coeff) ==
    IF normalized = NaN THEN NaN ELSE (normalized * coeff) \div WbUnit

\* raw.rs:264: let gamma = 2.2, in tenths
GammaTenths == 22

\* thresholds of (v.powf(1.0 / 2.2) * 255.0) as u8: GammaFloor[k] is the
\* least v (in 1/Scale) whose byte is at least k
GammaFloor ==
    << 1, 2, 4, 8, 12, 18, 25, 33, 42, 53, 66, 79, 94, 111, 129, 149, 170,
       193, 217, 243, 270, 299, 330, 362, 396, 432, 469, 508, 549, 592, 636,
       682, 730, 779, 830, 883, 938, 995, 1053, 1114, 1176, 1240, 1306, 1374,
       1443, 1515, 1588, 1663, 1740, 1819, 1900, 1983, 2068, 2155, 2244,
       2334, 2427, 2522, 2618, 2717, 2818, 2920, 3025, 3131, 3240, 3351,
       3463, 3578, 3695, 3814, 3935, 4058, 4183, 4310, 4439, 4570, 4703,
       4839, 4976, 5116, 5258, 5402, 5547, 5696, 5846, 5998, 6153, 6309,
       6468, 6629, 6792, 6957, 7125, 7295, 7466, 7640, 7816, 7995, 8175,
       8358, 8543, 8730, 8920, 9111, 9305, 9501, 9700, 9900, 10103, 10308,
       10515, 10725, 10936, 11151, 11367, 11585, 11806, 12029, 12255, 12482,
       12712, 12945, 13179, 13416, 13655, 13897, 14141, 14387, 14635, 14886,
       15139, 15394, 15652, 15912, 16175, 16439, 16706, 16976, 17248, 17522,
       17798, 18077, 18358, 18642, 18928, 19216, 19507, 19800, 20096, 20394,
       20694, 20997, 21302, 21609, 21919, 22232, 22546, 22863, 23183, 23505,
       23829, 24156, 24485, 24817, 25151, 25488, 25827, 26168, 26512, 26858,
       27207, 27558, 27912, 28268, 28627, 28988, 29352, 29718, 30086, 30457,
       30831, 31207, 31585, 31966, 32350, 32736, 33124, 33515, 33908, 34304,
       34703, 35104, 35507, 35913, 36322, 36733, 37146, 37562, 37981, 38402,
       38826, 39252, 39681, 40112, 40546, 40982, 41421, 41863, 42307, 42754,
       43203, 43654, 44109, 44566, 45025, 45487, 45952, 46419, 46889, 47361,
       47836, 48313, 48793, 49276, 49761, 50249, 50739, 51233, 51728, 52226,
       52727, 53231, 53737, 54246, 54757, 55271, 55787, 56306, 56828, 57353,
       57880, 58409, 58942, 59477, 60014, 60554, 61097, 61643, 62191, 62742,
       63295, 63851, 64410, 64971, 65535 >>

\* raw.rs:266: (v.powf(1.0 / gamma) * 255.0) as u8, a saturating cast that
\* truncates and maps NaN to 0
GammaByte(v) ==
    IF v = NaN THEN 0
    ELSE IF v >= Scale THEN ByteMax
    ELSE Cardinality({k \in 1..ByteMax : GammaFloor[k] <= v})

Pixels(img) == 0..(img.width * img.height - 1)

ZeroPlane(img) == [i \in Pixels(img) |-> 0]

\* raw.rs:99-148, the colour of pixel (x, y) in the first pass
FirstPassColor(x, y) == XTrans[(y % XTransPeriod) + 1][(x % XTransPeriod) + 1]

\* raw.rs:99-148, the value stored at pixel i into channel c
FirstPassValue(img, i, c) ==
    LET x == i % img.width
        y == i \div img.width
    IN  IF FirstPassColor(x, y) = c
        THEN ApplyWb(Normalize(img.data[i + 1], img.black, img.white),
                     img.wb[c + 1])
        ELSE 0

\* raw.rs:94-148: the three channel buffers after the first pass
FirstPass(img) ==
    [red   |-> [i \in Pixels(img) |-> FirstPassValue(img, i, 0)],
     green |-> [i \in Pixels(img) |-> FirstPassValue(img, i, 1)],
     blue  |-> [i \in Pixels(img) |-> FirstPassValue(img, i, 2)]]

\* neighbours.iter().filter(|&&v| v > 0.0).sum() / valid_count, stored at
\* i only if the channel is 0.0 there and some neighbour is > 0.0
Interpolate(plane, i, offsets) ==
    IF plane[i] # 0 THEN plane
    ELSE LET valid == {k \in 1..Len(offsets) : plane[i + offsets[k]] > 0}
             sum4  == (IF 1 \in valid THEN plane[i + offsets[1]] ELSE 0)
                    + (IF 2 \in valid THEN plane[i + offsets[2]] ELSE 0)
                    + (IF 3 \in valid THEN plane[i + offsets[3]] ELSE 0)
                    + (IF 4 \in valid THEN plane[i + offsets[4]] ELSE 0)
         IN  IF valid = {} THEN plane
             ELSE [plane EXCEPT ![i] = sum4 \div Cardinality(valid)]

AxisOffsets(w) == <<-1, 1, -w, w>>
DiagOffsets(w) == <<-1 - w, -1 + w, 1 - w, 1 + w>>

\* raw.rs:164-166: the colour the second pass takes pixel (x, y) to be
\* sampled in, cfa.color_at(cfa_x, cfa_y)
DemosaicColor(img, x, y) ==
    color_at(img.cfa, x % img.cfa.width, y % img.cfa.height)

\* raw.rs:163-250: the body of the second pass at interior pixel (x, y)
DemosaicPixel(img, pl, x, y) ==
    LET w == img.width
        i == y * w + x
        color == DemosaicColor(img, x, y)
    IN  CASE color = 0 ->
               [pl EXCEPT !.green = Interpolate(pl.green, i, AxisOffsets(w)),
                          !.blue  = Interpolate(pl.blue, i, DiagOffsets(w))]
          [] color = 1 ->
               [pl EXCEPT !.red  = Interpolate(pl.red, i, AxisOffsets(w)),
                          !.blue = Interpolate(pl.blue, i, AxisOffsets(w))]
          [] color = 2 ->
               [pl EXCEPT !.red   = Interpolate(pl.red, i, DiagOffsets(w)),
                          !.green = Interpolate(pl.green, i, AxisOffsets(w))]
          [] OTHER -> pl

InteriorW(img) == IF img.width > 2 THEN img.width - 2 ELSE 0
InteriorH(img) == IF img.height > 2 THEN img.height - 2 ELSE 0
InteriorCount(img) == InteriorW(img) * InteriorH(img)

\* raw.rs:160-251: the second pass, in place, rows then columns; k counts
\* the interior pixels already done
RECURSIVE SecondPassFrom(_, _, _)
SecondPassFrom(img, pl, k) ==
    IF k >= InteriorCount(img) THEN pl
    ELSE SecondPassFrom(img,
             DemosaicPixel(img, pl, 1 + (k % InteriorW(img)),
                                    1 + (k \div InteriorW(img))),
             k + 1)

SecondPass(img, pl) == SecondPassFrom(img, pl, 0)

\* GammaPass pushing a fourth (alpha) byte per pixel
GammaPassRgba(img, pl) ==
    [j \in 1..(4 * img.width * img.height) |->
        LET i == (j - 1) \div 4
            c == (j - 1) % 4
        IN  IF c = 3 THEN ByteMax
            ELSE GammaByte(IF c = 0 THEN pl.red[i]
                           ELSE IF c = 1 THEN pl.green[i] ELSE pl.blue[i])]

\* raw.rs:263-270: three bytes per pixel, R, G, B
GammaPass(img, pl) ==
    [j \in 1..(3 * img.width * img.height) |->
        LET i == (j - 1) \div 3
            c == (j - 1) % 3
        IN  GammaByte(IF c = 0 THEN pl.red[i]
                      ELSE IF c = 1 THEN pl.green[i] ELSE pl.blue[i])]

NoPlanes == [red |-> <<>>, green |-> <<>>, blue |-> <<>>]

Decoded(w, h, ch, buf, pl) ==
    [status |-> "ok", width |-> w, height |-> h, channels |-> ch,
     buffer |-> buf, planes |-> pl]
Failed(st) ==
    [status |-> st, width |-> 0, height |-> 0, channels |-> 0,
     buffer |-> <<>>, planes |-> NoPlanes]

\* raw.rs:84-92: the sampled indices y * width + x; with width or height 0
\* the usize subtraction underflows (a panic with overflow checks, an index
\* beyond the buffer without)
SampleIndexPanics(img) ==
    \/ img.width = 0
    \/ img.height = 0
    \/ \E y \in {0, img.height \div 2, img.height - 1},
          x \in {0, img.width \div 2, img.width - 1} :
          y * img.width + x >= Len(img.data)

\* raw.rs:64-272, RawImageData::Integer
ConvertInteger(img, image_type) ==
    IF SampleIndexPanics(img) THEN Failed("panic")
    ELSE IF img.width * img.height > Len(img.data) THEN Failed("panic")
    ELSE IF InteriorCount(img) > 0 /\ (img.cfa.width = 0 \/ img.cfa.height = 0)
         THEN Failed("panic")
    ELSE LET pl == SecondPass(img, FirstPass(img))
         IN  Decoded(img.width, img.height, 3, GammaPass(img, pl), pl)

\* raw.rs:273-276, RawImageData::Float
ConvertFloat(img) ==
    Decoded(img.width, img.height, 3,
            [j \in 1..(img.width * img.height * 3) |-> 0], NoPlanes)

\* image::RgbImage::from_raw(width, height, rgb_data) of raw.rs:280
FromRaw(r) ==
    IF r.status = "ok" /\ Len(r.buffer) < r.width * r.height * 3
    THEN Failed("err_from_raw")
    ELSE r

\* raw.rs:64-284: the conversion of a decoded sensor image
RawConvert(img, image_type) ==
    FromRaw(IF img.kind = "Integer" THEN ConvertInteger(img, image_type)
            ELSE ConvertFloat(img))

NoPath == [ext |-> ""]
NoProcessor == [kind |-> "-", via |-> "-", chosenOn |-> NoFile]
NoLoad == [via |-> "-", decoder |-> "-", chosenOn |-> NoFile,
           src |-> <<0, 0>>, image |-> Failed("none")]

----------------------------------------------------------------------------
(* The sensor images rawloader may return, within the bounds.              *)

MaxDim == 4
Dims == 0..MaxDim

CfaXTrans == [width |-> 6, height |-> 6, pattern |-> XTrans]
CfaRGGB   == [width |-> 2, height |-> 2, pattern |-> << <<0, 1>>, <<1, 2>> >>]
CfaGRBG   == [width |-> 2, height |-> 2, pattern |-> << <<1, 0>>, <<2, 1>> >>]
CfaNone   == [width |-> 0, height |-> 0, pattern |-> <<>>]
Cfas == {CfaXTrans, CfaRGGB, CfaGRBG}

SampleMax == 65535
SampleValues == {0, 16384, SampleMax}
RampStep == 4099

UniformData(n, v) == [i \in 1..n |-> v]
RampData(n) == [i \in 1..n |-> 1 + ((i * RampStep) % SampleMax)]
\* full samples but for one at 0, below any black level
DarkData(n, k) == [i \in 1..n |-> IF i = k THEN 0 ELSE SampleMax]
DataOf(n) ==
    {UniformData(n, v) : v \in SampleValues} \cup {RampData(n)}
    \cup {DarkData(n, k) : k \in 1..n}

Levels == { <<0, SampleMax>>, <<1024, 16383>> }
WbNeutral == <<WbUnit, WbUnit, WbUnit>>
Wbs == { WbNeutral, <<2 * WbUnit, WbUnit, 3>>, <<0, WbUnit, WbUnit>> }

Sensor(w, h, k, d, lv, wb, cfa) ==
    [width |-> w, height |-> h, kind |-> k, data |-> d,
     black |-> lv[1], white |-> lv[2], wb |-> wb, cfa |-> cfa]

NoSensor == Sensor(0, 0, "Float", <<>>, <<0, 0>>, WbNeutral, CfaNone)

SensorImages ==
    UNION { { Sensor(w, h, "Integer", d, lv, wb, cfa) :
                d \in DataOf(w * h), lv \in Levels, wb \in Wbs, cfa \in Cfas }
            \cup { Sensor(w, h, "Float", UniformData(w * h, v),
                          <<0, SampleMax>>, WbNeutral, CfaRGGB) :
                     v \in SampleValues }
            \cup { Sensor(w, h, "Integer", RampData(n), <<0, SampleMax>>,
                          WbNeutral, cfa) :
                     n \in {k \in {w * h - 1, w * h + 1} : k >= 0},
                     cfa \in {CfaXTrans, CfaNone} }
            \cup { Sensor(w, h, "Integer", UniformData(w * h, SampleMax),
                          lv, WbNeutral, cfa) :
                     lv \in { <<512, 512>>, <<0, SampleMax>> },
                     cfa \in {CfaXTrans, CfaNone} }
          : w \in Dims, h \in Dims }

\* the classifications under which RawProcessor::load_image converts
RawTypes == {"RawFuji", "RawCanon", "RawGeneric"}

NoRaw == [type |-> "-", result |-> Failed("none")]

InitRaw ==
    /\ sensor \in SensorImages
    /\ raw_out = NoRaw
    /\ raw_prev = NoRaw
    /\ file = NoFile
    /\ detected = NoDetect
    /\ path = NoPath
    /\ processor = NoProcessor
    /\ load = NoLoad
    /\ IdlePhoto /\ IdleCache /\ IdleUI

\* raw.rs:34-36 and 64-284: the sensor image is converted under the type
\* the detector reported; the same sensor data may be converted again
Convert ==
    /\ raw_prev = NoRaw
    /\ \E t \in RawTypes :
          raw_out' = [type |-> t, result |-> RawConvert(sensor, t)]
    /\ raw_prev' = raw_out
    /\ UNCHANGED <<sensor, detectVars, loadVars, photoVars, cacheVars, uiVars>>

NextRaw == Convert

SpecRaw == InitRaw /\ [][NextRaw]_vars

----------------------------------------------------------------------------
(* The files the model writes: a 16-byte header made of four 4-byte        *)
(* segments, possibly truncated, followed by a tail.                       *)

Z4 == <<0, 0, 0, 0>>

Seg0 == { <<255, 216, 255, 224>>, <<137, 80, 78, 71>>, <<71, 73, 70, 56>>,
          M_RIFF, M_TIFF_BE, M_TIFF_LE, M_FUJI, M_SONY, M_PANA, M_CIFF,
          <<0, 0, 67, 73>>, Z4 }
Seg1 == { <<13, 10, 26, 10>>, <<70, 70, 0, 0>>, M_HEIC, <<0, 78, 73, 75>>, Z4 }
Seg2 == { M_WEBP, <<67, 82, 2, 0>>, <<67, 82, 3, 0>>, <<79, 78, 0, 0>>,
          M_DNGK, Z4 }
Seg3 == { M_EPAK, Z4 }
\* first segments of the files that carry a NIKON marker in their tail
TailSeg0 == { M_TIFF_BE, M_TIFF_LE, M_FUJI, Z4 }

\* lengths of truncated files (shorter than the header)
ShortLens == {0, 2, 8, 15}
\* tail lengths: none, a short tail, exactly up to the extended window,
\* beyond it
MaxTail == 4090
TailLens == {0, 40, ExtendedLen - HeaderLen, MaxTail}
\* tail offsets of the NIKON marker (0: none); 4077 puts NIKON at bytes
\* 4092..4096 of the file, 4078 at 4093..4097
MarkOffsets == {0, 1, 20, 4076, 4078}

Files ==
    {NoFile}
    \cup { [exists |-> TRUE, head |-> SubSeq(s0 \o Z4 \o Z4 \o Z4, 1, n),
            tailLen |-> 0, markAt |-> 0] : s0 \in Seg0, n \in ShortLens }
    \cup { [exists |-> TRUE, head |-> s0 \o s1 \o s2 \o s3,
            tailLen |-> tl, markAt |-> 0] :
            s0 \in Seg0, s1 \in Seg1, s2 \in Seg2, s3 \in Seg3,
            tl \in {0, 40} }
    \cup { f \in { [exists |-> TRUE, head |-> s0 \o Z4 \o s2 \o Z4,
                      tailLen |-> tl, markAt |-> m] :
                      s0 \in TailSeg0, s2 \in Seg2, tl \in TailLens,
                      m \in MarkOffsets } :
            f.markAt > 0 /\ f.markAt + Len(M_NIKON) - 1 <= f.tailLen }

----------------------------------------------------------------------------
(* Detector state machine: the environment writes the file, the program    *)
(* runs detect_image_type on it.                                           *)

\* some file is at the path; detect_image_type has not been called yet
InitDetect ==
    /\ file \in Files
    /\ detected = NoDetect
    /\ sensor = NoSensor
    /\ raw_out = NoRaw
    /\ raw_prev = NoRaw
    /\ path = NoPath
    /\ processor = NoProcessor
    /\ load = NoLoad
    /\ IdlePhoto /\ IdleCache /\ IdleUI

\* the program runs detect_image_type(path)
Detect ==
    /\ detected = NoDetect
    /\ detected' = [input |-> file, result |-> detect_image_type(file)]
    /\ UNCHANGED <<file, rawVars, loadVars, photoVars, cacheVars, uiVars>>

NextDetect == Detect

SpecDetect == InitDetect /\ [][NextDetect]_vars

----------------------------------------------------------------------------
(* Loading: processors::get_processor and the two ImageProcessor           *)
(* implementations, and Photo::load_image.  The codecs (image, rawloader,  *)
(* dcraw) are outside the program: what they return is an input.           *)

\* a path is known by its extension, as written
Extensions == {"jpg", "png", "RAF", "nef", "txt", ""}

\* str::to_lowercase on the extensions above
ToLower(e) == IF e = "RAF" THEN "raf" ELSE e

\* photo.rs:70-77, the extensions Photo::load_image sends to load_raw_image
RawExtensions == {"raf", "raw", "cr2", "nef", "arw", "rw2", "dng", "orf"}

\* image::ImageFormat::from_path: the format of an extension, "-" if none
FormatFromPath(e) ==
    CASE ToLower(e) = "jpg" -> "Jpeg"
      [] ToLower(e) = "png" -> "Png"
      [] OTHER -> "-"

\* the format the image crate recognises in the leading bytes
GuessFormat(f) ==
    IF FileLen(f) >= Len(M_PNG) /\ SliceEq(f, 0, M_PNG) THEN "Png"
    ELSE IF FileLen(f) >= Len(M_JPEG) /\ SliceEq(f, 0, M_JPEG) THEN "Jpeg"
    ELSE "-"

\* standard.rs:10
MMAP_THRESHOLD == 32 * 1024 * 1024


\* mod.rs:22-38
get_processor(f) ==
    LET d == detect_image_type(f)
    IN  IF d.ok THEN (IF is_raw(d.type) THEN "Raw" ELSE "Standard")
        ELSE "Standard"

\* what the image crate may return for a file it can decode: any width and
\* height, any DynamicImage colour type (1, 2, 3 or 4 bytes per pixel here)
MaxCodecDim == 2
CodecChannels == {1, 3, 4}
CodecImages ==
    { Decoded(w, h, ch, [j \in 1..(w * h * ch) |-> 0], NoPlanes) :
        w \in 1..MaxCodecDim, h \in 1..MaxCodecDim, ch \in CodecChannels }

\* what rawloader::decode_file may return for a file it can decode
MaxLoadDim == 3
SensorImagesLoad ==
    { Sensor(w, h, k, UniformData(w * h, v), <<0, SampleMax>>, WbNeutral,
             CfaXTrans) :
        w \in 0..MaxLoadDim, h \in 0..MaxLoadDim, k \in {"Integer", "Float"},
        v \in {SampleMax} }

\* the files a load is tried on
Header(s0, s2) == s0 \o Z4 \o s2 \o Z4
LoadFiles ==
    { NoFile,
      [exists |-> TRUE, head |-> SubSeq(M_FUJI \o Z4, 1, 8), tailLen |-> 0,
       markAt |-> 0] }
    \cup { [exists |-> TRUE, head |-> Header(s0, s2), tailLen |-> tl,
            markAt |-> 0] :
            s0 \in { <<255, 216, 255, 224>>, <<137, 80, 78, 71>>,
                     M_FUJI, M_TIFF_LE, Z4 },
            s2 \in { Z4 }, tl \in {40} }
    \cup { [exists |-> TRUE, head |-> M_PNG \o Z4 \o Z4, tailLen |-> 40,
            markAt |-> 0],
           [exists |-> TRUE, head |-> Header(M_TIFF_LE, <<67, 82, 2, 0>>),
            tailLen |-> 40, markAt |-> 0],
           [exists |-> TRUE, head |-> Header(<<255, 216, 255, 224>>, Z4),
            tailLen |-> MMAP_THRESHOLD, markAt |-> 0] }

InitLoad ==
    /\ path \in [ext : Extensions]
    /\ file \in LoadFiles
    /\ processor = NoProcessor
    /\ load = NoLoad
    /\ detected = NoDetect
    /\ sensor = NoSensor
    /\ raw_out = NoRaw
    /\ raw_prev = NoRaw
    /\ IdlePhoto /\ IdleCache /\ IdleUI

\* processors::get_processor(path)
GetProcessor ==
    /\ processor = NoProcessor
    /\ load = NoLoad
    /\ processor' = [kind |-> get_processor(file), via |-> "router",
                     chosenOn |-> file]
    /\ UNCHANGED <<path, load, file, detected, rawVars>>
    /\ UNCHANGED <<photoVars, cacheVars, uiVars>>

\* RawProcessor::new() or StandardProcessor::new(), both public
NewProcessor ==
    /\ processor = NoProcessor
    /\ load = NoLoad
    /\ \E k \in {"Raw", "Standard"} :
          processor' = [kind |-> k, via |-> "direct", chosenOn |-> file]
    /\ UNCHANGED <<path, load, file, detected, rawVars>>
    /\ UNCHANGED <<photoVars, cacheVars, uiVars>>

\* another program rewrites the file between the choice of the processor
\* and the call of its load_image
ReplaceFile ==
    /\ processor # NoProcessor
    /\ load = NoLoad
    /\ \E f \in LoadFiles : f # file /\ file' = f
    /\ UNCHANGED <<path, load, processor, detected, rawVars>>
    /\ UNCHANGED <<photoVars, cacheVars, uiVars>>

Loaded(via, dec, src, img) ==
    [via |-> via, decoder |-> dec, chosenOn |-> processor.chosenOn,
     src |-> src, image |-> img]

\* raw.rs:26-285, RawProcessor::load_image; decode_file either fails or
\* returns a sensor image
RawLoadImage ==
    /\ processor.kind = "Raw"
    /\ load = NoLoad
    /\ IF ~file.exists
       THEN /\ load' = Loaded(processor.via, "raw", <<0, 0>>,
                              Failed("err_not_exist"))
            /\ UNCHANGED sensor
       ELSE IF ~detect_image_type(file).ok
       THEN /\ load' = Loaded(processor.via, "raw", <<0, 0>>,
                              Failed("err_detect"))
            /\ UNCHANGED sensor
       ELSE \/ /\ load' = Loaded(processor.via, "raw", <<0, 0>>,
                                 Failed("err_decode"))
               /\ UNCHANGED sensor
            \/ \E img \in SensorImagesLoad :
                 /\ sensor' = img
                 /\ load' = Loaded(processor.via, "raw",
                                   <<img.width, img.height>>,
                                   RawConvert(img, detect_image_type(file).type))
    /\ UNCHANGED <<path, processor, file, detected, raw_out, raw_prev>>
    /\ UNCHANGED <<photoVars, cacheVars, uiVars>>

\* the outcomes of a codec asked to decode f as format fmt
CodecOutcomes(f, fmt) ==
    IF fmt # "-" /\ GuessFormat(f) = fmt
    THEN CodecImages \cup {Failed("err_decode")}
    ELSE {Failed("err_decode")}

\* standard.rs:43-48, the memory-mapped path: image::load_from_memory
\* takes the format from the leading bytes
MmapOutcomes(f) == CodecOutcomes(f, GuessFormat(f))

\* standard.rs:49-53, the buffered path: ImageFormat::from_path takes the
\* format from the extension and fails when it names none
BufferedOutcomes(f, e) ==
    IF FormatFromPath(e) = "-" THEN {Failed("err_format")}
    ELSE CodecOutcomes(f, FormatFromPath(e))

\* standard.rs:37-54, StandardProcessor::load_image
StandardLoadImage ==
    /\ processor.kind = "Standard"
    /\ load = NoLoad
    /\ IF ~file.exists
       THEN load' = Loaded(processor.via, "standard", <<0, 0>>,
                           Failed("err_open"))
       ELSE IF FileLen(file) > MMAP_THRESHOLD
       THEN \E r \in MmapOutcomes(file) :
               load' = Loaded(processor.via, "standard",
                              <<r.width, r.height>>, r)
       ELSE \E r \in BufferedOutcomes(file, path.ext) :
               load' = Loaded(processor.via, "standard",
                              <<r.width, r.height>>, r)
    /\ UNCHANGED <<path, processor, file, detected, rawVars>>
    /\ UNCHANGED <<photoVars, cacheVars, uiVars>>

\* photo.rs:29-41, Photo::new: only the EXIF data is read, and a failure to
\* read it is ignored
PhotoNew ==
    /\ processor = NoProcessor
    /\ load = NoLoad
    /\ ~photo.made
    /\ \E x \in (IF file.exists THEN {None, Some("exif")} ELSE {None}) :
          photo' = [made |-> TRUE, exif |-> x, image |-> None]
    /\ UNCHANGED <<requests, decodes, file, detected, rawVars, loadVars>>
    /\ UNCHANGED <<cacheVars, uiVars>>

\* calls of Photo::load_image followed on one photo
MaxRequests == 2

\* whether Photo::load_image gets as far as running dcraw or a codec
RunsDecoder(f, e) ==
    /\ ToLower(e) # ""
    /\ f.exists
    /\ ToLower(e) \in RawExtensions \/ FormatFromPath(e) # "-"

\* photo.rs:55-83, Photo::load_image: load_raw_image (dcraw, then the PPM
\* codec) or image::open, by the extension
PhotoLoadImage ==
    /\ processor = NoProcessor
    /\ photo.made
    /\ requests < MaxRequests
    /\ LET ext == ToLower(path.ext)
           done(dec, r) == [via |-> "photo", decoder |-> dec,
                            chosenOn |-> file,
                            src |-> <<r.width, r.height>>, image |-> r]
       IN  IF ext = ""
           THEN load' = done("-", Failed("err_no_extension"))
           ELSE IF ext \in RawExtensions
           THEN IF ~file.exists
                THEN load' = done("raw", Failed("err_not_exist"))
                ELSE \E r \in CodecImages \cup {Failed("err_decode")} :
                        load' = done("raw", r)
           ELSE IF ~file.exists
                THEN load' = done("standard", Failed("err_open"))
                ELSE \E r \in BufferedOutcomes(file, path.ext) :
                        load' = done("standard", r)
    /\ requests' = requests + 1
    /\ decodes' = decodes + (IF RunsDecoder(file, path.ext) THEN 1 ELSE 0)
    /\ UNCHANGED <<photo, path, processor, file, detected, rawVars>>
    /\ UNCHANGED <<cacheVars, uiVars>>

\* photo.rs:51-53, Photo::set_image with the image load_image returned
SetImage ==
    /\ photo.made
    /\ load.via = "photo"
    /\ load.image.status = "ok"
    /\ photo.image # Some(load.image)
    /\ photo' = [photo EXCEPT !.image = Some(load.image)]
    /\ UNCHANGED <<requests, decodes, file, detected, rawVars, loadVars>>
    /\ UNCHANGED <<cacheVars, uiVars>>

Next ==
    \/ GetProcessor
    \/ NewProcessor
    \/ ReplaceFile
    \/ RawLoadImage
    \/ StandardLoadImage
    \/ PhotoNew
    \/ PhotoLoadImage
    \/ SetImage

Spec == InitLoad /\ [][Next]_vars

----------------------------------------------------------------------------
(* The detection rules of the specification, one predicate per rule, on    *)
(* the 16-byte header of a file of at least 16 bytes.                      *)

HeaderRules == {"Jpeg", "Png", "Gif", "WebP", "Tiff", "RawFuji", "RawCanon",
                "RawSony", "RawPanasonic", "RawGeneric"}

RuleMatches(r, f) ==
    CASE r = "Jpeg" -> SliceEq(f, 0, M_JPEG)
      [] r = "Png" -> SliceEq(f, 0, M_PNG)
      [] r = "Gif" -> SliceEq(f, 0, M_GIF)
      [] r = "WebP" -> SliceEq(f, 0, M_RIFF) /\ SliceEq(f, 8, M_WEBP)
      [] r = "Tiff" -> IsTiffMagic(f)
      [] r = "RawFuji" -> SliceEq(f, 0, M_FUJI)
      [] r = "RawCanon" -> SliceEq(f, 8, M_CR2) \/ SliceEq(f, 8, M_CR3)
      [] r = "RawSony" -> SliceEq(f, 0, M_SONY)
      [] r = "RawPanasonic" -> SliceEq(f, 0, M_PANA)
      [] r = "RawGeneric" -> \E k \in 1..Len(raw_markers) :
                                 Contains(f, HeaderLen, raw_markers[k])

MatchedRules(f) == {r \in HeaderRules : RuleMatches(r, f)}

Min(a, b) == IF a < b THEN a ELSE b

Detected == detected # NoDetect
LongEnough(f) == f.exists /\ FileLen(f) >= HeaderLen

\* C1: a readable file of at least 16 bytes whose header matches exactly
\* one of the rules Jpeg, Png, Gif, WebP, RawFuji, RawSony, RawPanasonic,
\* RawGeneric is classified as that type, a header that matches no rule is
\* Unknown, and a file shorter than 16 bytes gives a read error.
C1_SingleRuleExact ==
    Detected =>
        LET f == detected.input
            r == detected.result
        IN  /\ (f.exists /\ FileLen(f) < HeaderLen) => r = Err("read_header")
            /\ LongEnough(f) =>
                 /\ \A t \in HeaderRules \ {"Tiff", "RawCanon"} :
                        MatchedRules(f) = {t} => r = Ok(t)
                 /\ MatchedRules(f) = {} => r = Ok("Unknown")

\* a generic RAW marker that does not start at byte 0 has been classified
C1_Witness ==
    /\ Detected
    /\ LongEnough(detected.input)
    /\ MatchedRules(detected.input) = {"RawGeneric"}
    /\ \A k \in 1..Len(raw_markers) : ~SliceEq(detected.input, 0, raw_markers[k])
    /\ detected.result = Ok("RawGeneric")

\* C2: a TIFF-magic file whose first 4096 bytes contain NIKON is RawNikon,
\* and Tiff is the result only when the file has no such marker.
C2_NikonOverridesTiff ==
    (Detected /\ LongEnough(detected.input) /\ IsTiffMagic(detected.input)) =>
        LET f == detected.input
            nikon == Contains(f, Min(ExtendedLen, FileLen(f)), M_NIKON)
        IN  /\ nikon => detected.result = Ok("RawNikon")
            /\ detected.result = Ok("Tiff") => ~nikon

\* C3: a file that matches none of Jpeg, Png, Gif, WebP, RawFuji and has
\* CR\x02 or CR\x03 at bytes 8-10 is RawCanon, TIFF magic or not.
C3_CanonBeforeTiff ==
    (Detected /\ LongEnough(detected.input)
       /\ MatchedRules(detected.input)
            \cap {"Jpeg", "Png", "Gif", "WebP", "RawFuji"} = {}
       /\ RuleMatches("RawCanon", detected.input))
    => detected.result = Ok("RawCanon")

\* C4: detect_image_type fails only for a file that cannot be opened or is
\* shorter than 16 bytes; every other file gets an ImageType.
C4_ErrorOnlyWhenShort ==
    Detected =>
        /\ ~detected.result.ok =>
              (~detected.input.exists \/ FileLen(detected.input) < HeaderLen)
        /\ LongEnough(detected.input) =>
              (detected.result.ok /\ detected.result.type \in ImageType)

\* a TIFF-magic file shorter than the extended window has been classified
C4_Witness ==
    /\ Detected
    /\ LongEnough(detected.input)
    /\ IsTiffMagic(detected.input)
    /\ FileLen(detected.input) < ExtendedLen
    /\ detected.result.ok

----------------------------------------------------------------------------
(* Claims about the RAW conversion *)

Converted == raw_out # NoRaw /\ raw_out.result.status = "ok"

Interior(img) ==
    {i \in Pixels(img) :
        /\ i % img.width >= 1 /\ i % img.width <= img.width - 2
        /\ i \div img.width >= 1 /\ i \div img.width <= img.height - 2}

\* every sample is above the black level and every coefficient positive,
\* so that the first pass stores no 0.0 of its own
AllSamplesPositive(img) ==
    /\ img.white > img.black
    /\ \A i \in 1..Len(img.data) : img.data[i] > img.black
    /\ \A c \in 1..3 : img.wb[c] > 0

\* C8: after the demosaic pass every interior pixel of an image with a CFA
\* tile of at least 2x2 has a non-zero value in all three channels (stated
\* for images whose samples are all above the black level, where a zero
\* can only be a gap the pass left unfilled).
C8_InteriorFilled ==
    (Converted /\ sensor.kind = "Integer"
       /\ sensor.cfa.width >= 2 /\ sensor.cfa.height >= 2
       /\ AllSamplesPositive(sensor))
    => \A i \in Interior(sensor) :
           /\ raw_out.result.planes.red[i] # 0
           /\ raw_out.result.planes.green[i] # 0
           /\ raw_out.result.planes.blue[i] # 0

\* thresholds of round((v / 65535) ^ (1 / 2.2) * 255): GammaRound[k] is the
\* least v whose rounded byte is at least k
GammaRound ==
    << 1, 1, 3, 6, 10, 15, 21, 29, 37, 48, 59, 72, 87, 103, 120, 139, 159,
       181, 205, 230, 256, 285, 314, 346, 379, 414, 451, 489, 529, 570, 614,
       659, 706, 754, 805, 857, 911, 966, 1024, 1083, 1145, 1208, 1273, 1339,
       1408, 1479, 1551, 1625, 1702, 1780, 1860, 1942, 2026, 2111, 2199,
       2289, 2381, 2474, 2570, 2667, 2767, 2869, 2972, 3078, 3186, 3295,
       3407, 3521, 3636, 3754, 3874, 3996, 4120, 4246, 4374, 4504, 4636,
       4771, 4907, 5046, 5187, 5329, 5474, 5621, 5770, 5922, 6075, 6231,
       6388, 6548, 6710, 6875, 7041, 7209, 7380, 7553, 7728, 7905, 8085,
       8267, 8450, 8636, 8825, 9015, 9208, 9403, 9600, 9800, 10001, 10205,
       10411, 10620, 10830, 11043, 11258, 11476, 11696, 11918, 12142, 12368,
       12597, 12828, 13062, 13297, 13535, 13776, 14018, 14263, 14511, 14760,
       15012, 15266, 15523, 15782, 16043, 16307, 16573, 16841, 17111, 17384,
       17660, 17937, 18218, 18500, 18785, 19072, 19361, 19653, 19948, 20244,
       20544, 20845, 21149, 21455, 21764, 22075, 22389, 22704, 23023, 23344,
       23667, 23992, 24320, 24651, 24984, 25319, 25657, 25997, 26340, 26685,
       27033, 27383, 27735, 28090, 28447, 28807, 29170, 29534, 29902, 30271,
       30644, 31018, 31396, 31775, 32158, 32542, 32929, 33319, 33711, 34106,
       34503, 34903, 35305, 35710, 36117, 36527, 36939, 37354, 37771, 38191,
       38614, 39039, 39466, 39896, 40329, 40764, 41202, 41642, 42085, 42530,
       42978, 43428, 43881, 44337, 44795, 45256, 45719, 46185, 46653, 47124,
       47598, 48074, 48553, 49034, 49518, 50005, 50494, 50986, 51480, 51977,
       52477, 52979, 53483, 53991, 54501, 55013, 55529, 56047, 56567, 57090,
       57616, 58144, 58675, 59209, 59745, 60284, 60826, 61370, 61917, 62466,
       63018, 63573, 64130, 64690, 65253 >>

RoundByte(v) == Cardinality({k \in 1..ByteMax : GammaRound[k] <= v})

IsUniform(img) ==
    /\ Len(img.data) = img.width * img.height
    /\ \A i, j \in 1..Len(img.data) : img.data[i] = img.data[j]

\* C9: with one uniform sample value v, black 0, white 65535 and
\* coefficients [1,1,1], every interior pixel of the decoded image has the
\* byte round((v/65535)^(1/2.2)*255) in all three channels.
C9_UniformGamma ==
    (Converted /\ sensor.kind = "Integer" /\ IsUniform(sensor)
       /\ sensor.black = 0 /\ sensor.white = SampleMax
       /\ sensor.wb = WbNeutral)
    => \A i \in Interior(sensor) : \A c \in 1..3 :
           raw_out.result.buffer[3 * i + c] = RoundByte(sensor.data[1])

\* C10: the same sensor data converted under RawFuji (gamma 2.4) and under
\* RawCanon (gamma 2.1) gives different output bytes (stated for images
\* with a mid-tone byte, where the two exponents cannot agree).
C10_GammaPerFormat ==
    (Converted /\ raw_prev # NoRaw /\ raw_prev.result.status = "ok"
       /\ raw_prev.type = "RawFuji" /\ raw_out.type = "RawCanon"
       /\ \E j \in 1..Len(raw_out.result.buffer) :
             raw_out.result.buffer[j] \in 64..192)
    => raw_prev.result.buffer # raw_out.result.buffer

----------------------------------------------------------------------------
(* Claims about loading *)

LoadDone == load # NoLoad

\* C5: the decoder that runs for a path is the RAW decoder exactly when
\* the detector classifies the file as a RAW type, and the standard one
\* otherwise, whatever the extension (a processor the caller constructed
\* itself is not a choice of the program and is left out).
C5_DecoderFromDetector ==
    (LoadDone /\ load.via \in {"router", "photo"}
       /\ load.decoder \in {"raw", "standard"})
    => LET d == detect_image_type(load.chosenOn)
       IN  (load.decoder = "raw") <=> (d.ok /\ is_raw(d.type))

\* C6: when detection fails the router picks the standard decoder, and no
\* load returns the detector's error.
C6_DetectErrorAbsorbed ==
    /\ (processor.via = "router" /\ ~detect_image_type(processor.chosenOn).ok)
          => processor.kind = "Standard"
    /\ LoadDone => load.image.status # "err_detect"

----------------------------------------------------------------------------
(* Claims about degenerate and float sensor images *)

ConvertDone == raw_out # NoRaw

\* statuses that are an Err value returned to the caller
ErrStatuses == {"err_from_raw", "err_decode", "err_config"}

\* C11: when the white level equals the black level the RAW decode fails
\* and returns no image.
C11_ZeroRangeFails ==
    (ConvertDone /\ sensor.white = sensor.black)
    => raw_out.result.status # "ok"

\* C12: when the sample buffer length differs from width*height the RAW
\* decode returns an error value; it neither aborts nor decodes.
C12_LengthMismatchIsError ==
    (ConvertDone /\ sensor.kind = "Integer"
       /\ sensor.width >= 1 /\ sensor.height >= 1
       /\ Len(sensor.data) # sensor.width * sensor.height)
    => raw_out.result.status \in ErrStatuses

\* C13: a float-sample image goes through the same stages as an integer
\* one, so its output depends on its samples: positive samples do not give
\* an all-zero buffer.
C13_FloatIsConverted ==
    (ConvertDone /\ sensor.kind = "Float"
       /\ raw_out.result.status = "ok"
       /\ \E i \in 1..Len(sensor.data) : sensor.data[i] > 0)
    => \E j \in 1..Len(raw_out.result.buffer) : raw_out.result.buffer[j] # 0

----------------------------------------------------------------------------
(* Claims about the standard decoder's two paths and about Photo.          *)

StandardDone ==
    /\ LoadDone
    /\ load.via \in {"router", "direct"}
    /\ load.decoder = "standard"
    /\ file.exists

\* the outcomes of the path of StandardProcessor::load_image that the size
\* of the file did not select
OtherPathOutcomes(f, e) ==
    IF FileLen(f) > MMAP_THRESHOLD THEN BufferedOutcomes(f, e)
    ELSE MmapOutcomes(f)

\* C14: an image the standard decoder returned for a file is also what its
\* other path (buffered instead of memory-mapped, or the reverse) returns
\* for the same path and bytes, whatever the extension of the path.
C14_PathsAgree ==
    (StandardDone /\ load.image.status = "ok")
    => load.image \in OtherPathOutcomes(file, path.ext)

\* a file the codec of the path's extension decodes
Decodable(f, e) ==
    f.exists /\ FormatFromPath(e) # "-" /\ GuessFormat(f) = FormatFromPath(e)

\* C15: two requests for the pixels of one path, a decodable file left
\* unchanged in between, run the decoder once.
C15_SecondRequestIsHit ==
    (requests >= 2 /\ Decodable(file, path.ext)) => decodes = 1

\* C18: the photo Photo::new returns for the path of a decodable image
\* file has its image populated.
C18_NewPhotoHasImage ==
    (photo.made /\ requests = 0 /\ Decodable(file, path.ext))
    => photo.image # None

----------------------------------------------------------------------------
(* ImageCache.  Its code is not in the source tree (tests.rs:33-42 tests a  *)
(* cache hit); it is modelled from section 4.5 of the specification.  Paths *)
(* are numbered; two calls may decode at once, each get, insert and evict  *)
(* is one step under the cache's lock.                                      *)

CacheCapacity == 32

\* the paths requested: enough to fill the cache and overflow it
NumPaths == CacheCapacity + 2
CachePaths == 1..NumPaths

\* the paths requested again once cached, and the path whose file changes
ReusePaths == {1, 2}
TouchPaths == {1}

\* modification times; Unreadable when the file system gives none
MaxTime == 1
Unreadable == -1

\* steps spent on something else than loading each path once: hits,
\* failed decodes, decodes of a path again
MaxExtra == 3

\* calls decoding at once
MaxDecoding == 2

InitCache ==
    /\ cache = <<>>
    /\ mtimes = [p \in CachePaths |-> 0]
    /\ accessed = <<>>
    /\ got = NoGot
    /\ decoding = {}
    /\ file = NoFile
    /\ detected = NoDetect
    /\ sensor = NoSensor
    /\ raw_out = NoRaw
    /\ raw_prev = NoRaw
    /\ path = NoPath
    /\ processor = NoProcessor
    /\ load = NoLoad
    /\ IdlePhoto /\ IdleUI

\* the position of the entry of path p, 0 when it has none
Find(c, p) ==
    IF \E i \in 1..Len(c) : c[i].path = p
    THEN CHOOSE i \in 1..Len(c) : c[i].path = p
    ELSE 0

Remove(c, i) == SubSeq(c, 1, i - 1) \o SubSeq(c, i + 1, Len(c))

CachedPaths(c) == { c[i].path : i \in 1..Len(c) }

\* section 4.5: the entry is trusted if the current modification time is
\* known and not later than the stored one
FreshTrustsUnreadable(e, current) ==
    current = Unreadable \/ current <= e.mtime
Fresh(e, current) ==
    /\ current # Unreadable
    /\ e.mtime # Unreadable
    /\ current <= e.mtime

\* section 4.5: a hit makes the entry the most recently used
PromoteNot(c, i) ==
    c
Promote(c, i) ==
    Append(Remove(c, i), c[i])

\* section 4.5: the entry the insertion of path p evicts, 0 when none
Evicted(c, p) ==
    IF Find(c, p) = 0 /\ Len(c) >= CacheCapacity THEN c[1].path ELSE 0

\* section 4.5: insert (path, image, current_mtime); an entry of the same
\* path is replaced, else the least recently used one makes room
Insert(c, e) ==
    LET i == Find(c, e.path)
    IN  IF i > 0 THEN Append(Remove(c, i), e)
        ELSE IF Len(c) >= CacheCapacity THEN Append(Tail(c), e)
        ELSE Append(c, e)

\* the paths cached at least once, and those on their first decode
EverCached == { accessed[i] : i \in 1..Len(accessed) }
FirstDecodes == { t.path : t \in decoding } \ EverCached

\* the cache holds few entries, or is full
SmallFill == 2
ReuseTime == Len(cache) <= SmallFill \/ Len(cache) >= CacheCapacity

\* the requests the model makes: paths are first requested in increasing
\* order; the ReusePaths are requested again once cached, while the cache
\* is nearly empty or full, MaxExtra times in all; calls that decode at
\* once are calls for one path
Requestable(p) ==
    /\ \A t \in decoding : t.path = p
    /\ IF p \in EverCached
       THEN p \in ReusePaths /\ ReuseTime /\ got.extra < MaxExtra
       ELSE /\ IF p = 1 THEN TRUE ELSE (p - 1) \in EverCached
            /\ p \in FirstDecodes => got.extra < MaxExtra

\* whether the step of a call for path p is one more than loading p once
IsExtra(p) == IF p \in EverCached \cup FirstDecodes THEN 1 ELSE 0

\* the history of accesses after an access to path p
Access(p) ==
    LET Other(q) == q # p
    IN  Append(SelectSeq(accessed, Other), p)

\* a free slot for a decode
FreeSlot == CHOOSE k \in 1..MaxDecoding : \A t \in decoding : t.slot # k

\* section 4.5, get_or_decode(path) up to the decode: a fresh entry is
\* returned and promoted, else the call goes on to decode
GetOrDecode(p) ==
    /\ Requestable(p)
    /\ LET i == Find(cache, p)
           current == mtimes[p]
           seen == [extra |-> got.extra + IsExtra(p), path |-> p,
                    outcome |-> "miss", hadEntry |-> i > 0,
                    stored |-> IF i > 0 THEN cache[i].mtime ELSE 0,
                    current |-> current, evicted |-> 0,
                    before |-> CachedPaths(cache), image |-> 0]
       IN  IF i > 0 /\ Fresh(cache[i], current)
           THEN /\ cache' = Promote(cache, i)
                /\ accessed' = Access(p)
                /\ got' = [seen EXCEPT !.outcome = "hit",
                                       !.image = cache[i].image]
                /\ UNCHANGED decoding
           ELSE /\ Cardinality(decoding) < MaxDecoding
                /\ decoding' = decoding \cup
                      {[slot |-> FreeSlot, path |-> p, mtime |-> current]}
                /\ got' = seen
                /\ UNCHANGED <<cache, accessed>>
    /\ UNCHANGED <<mtimes, detectVars, rawVars, loadVars, photoVars, uiVars>>

\* the image the decoder makes of the file of path p as written at time m
ImageOf(p, m) == <<p, m>>

\* section 4.5, the rest of get_or_decode(path): the router's decoder
\* fails, or its image is inserted with the modification time read before
FinishDecode(t) ==
    /\ t \in decoding
    /\ decoding' = decoding \ {t}
    /\ LET i == Find(cache, t.path)
           seen == [extra |-> got.extra, path |-> t.path, outcome |-> "error",
                    hadEntry |-> i > 0,
                    stored |-> IF i > 0 THEN cache[i].mtime ELSE 0,
                    current |-> t.mtime, evicted |-> 0,
                    before |-> CachedPaths(cache), image |-> 0]
       IN  \/ /\ got.extra < MaxExtra
              /\ got' = [seen EXCEPT !.extra = got.extra + 1]
              /\ UNCHANGED <<cache, accessed>>
           \/ /\ cache' = Insert(cache, [path |-> t.path, mtime |-> t.mtime,
                                         image |-> ImageOf(t.path, t.mtime)])
              /\ accessed' = Access(t.path)
              /\ got' = [seen EXCEPT !.outcome = "decoded",
                                     !.evicted = Evicted(cache, t.path),
                                     !.image = ImageOf(t.path, t.mtime)]
    /\ UNCHANGED <<mtimes, detectVars, rawVars, loadVars, photoVars, uiVars>>

\* another program writes the file, or makes its modification time
\* unreadable or readable again
Touch(p) ==
    /\ p \in TouchPaths
    /\ \E m \in (0..MaxTime) \cup {Unreadable} :
          /\ m # mtimes[p]
          /\ mtimes' = [mtimes EXCEPT ![p] = m]
    /\ UNCHANGED <<cache, accessed, got, decoding>>
    /\ UNCHANGED <<detectVars, rawVars, loadVars, photoVars, uiVars>>

NextCache ==
    \/ \E p \in CachePaths : GetOrDecode(p)
    \/ \E t \in decoding : FinishDecode(t)
    \/ \E p \in CachePaths : Touch(p)

SpecCache == InitCache /\ [][NextCache]_vars

----------------------------------------------------------------------------
(* The application: PhotoFlow::update of main.rs.  Paths and images are    *)
(* numbered; an index is the usize of the code, counted from 0.  A Command  *)
(* is a task in flight; the step that ends a task is the step in which      *)
(* update handles the message the task produced.                            *)

UiPaths == 1..3

\* the folders the dialog may return, as read_dir lists their photos
Directories == {<<>>, <<1, 2>>, <<2, 3>>, <<3>>}

\* the images a decode may return
MaxImage == 2
Images == 1..MaxImage

\* the indexes PhotoSelected may carry
MaxIndex == 2

\* decode tasks, and folder dialogs, in flight at once
MaxTasks == 2
MaxDialogs == 1

\* main.rs:52-63, PhotoFlow::new
InitUI ==
    /\ photo_paths = <<>>
    /\ photos = <<>>
    /\ current_photo = None
    /\ error = None
    /\ tasks = [p \in UiPaths |-> 0]
    /\ dialog = 0
    /\ handled = NoMsg
    /\ failed = {}
    /\ file = NoFile
    /\ detected = NoDetect
    /\ sensor = NoSensor
    /\ raw_out = NoRaw
    /\ raw_prev = NoRaw
    /\ path = NoPath
    /\ processor = NoProcessor
    /\ load = NoLoad
    /\ IdlePhoto /\ IdleCache

\* Vec indexing: the element at index i, counted from 0
At(v, i) == v[i + 1]

\* the message update handles
Msg(m, a, img) == [msg |-> m, arg |-> a, image |-> img]

TotalTasks == tasks[1] + tasks[2] + tasks[3]

\* Command::perform of a decode of path p, and the end of such a task
Issue(tk, p) == [tk EXCEPT ![p] = @ + 1]
Complete(tk, p) == [tk EXCEPT ![p] = @ - 1]

\* main.rs:255, photo_paths.iter().position(|p| p == &path)
Position(paths, p) ==
    IF \E i \in 0..(Len(paths) - 1) : At(paths, i) = p
    THEN Some(CHOOSE i \in 0..(Len(paths) - 1) :
                /\ At(paths, i) = p
                /\ \A j \in 0..(i - 1) : At(paths, j) # p)
    ELSE None

\* the Photo of Photo::new(path) after set_image(img)
PhotoWith(p, img) == [path |-> p, image |-> Some(img)]

\* main.rs:71-102, Message::LoadDirectory: the dialog is shown
LoadDirectory ==
    /\ dialog < MaxDialogs
    /\ dialog' = dialog + 1
    /\ handled' = Msg("LoadDirectory", None, None)
    /\ failed' = {}
    /\ UNCHANGED <<photo_paths, photos, current_photo, error, tasks>>
    /\ UNCHANGED <<detectVars, rawVars, loadVars, photoVars, cacheVars>>

\* main.rs:112, vec![None; paths_len]
EmptySlotsOne(paths) ==
    <<None>>
EmptySlots(paths) ==
    [i \in 1..Len(paths) |-> None]

\* main.rs:103-144, Message::DirectoryLoaded(paths)
DirectoryLoaded(paths) ==
    /\ dialog > 0
    /\ dialog' = dialog - 1
    /\ handled' = Msg("DirectoryLoaded", Some(paths), None)
    /\ failed' = {}
    /\ IF paths # <<>>
       THEN /\ TotalTasks < MaxTasks
            /\ photo_paths' = paths
            /\ photos' = EmptySlots(paths)
            /\ current_photo' = Some(0)
            /\ error' = None
            /\ tasks' = Issue(tasks, At(paths, 0))
       ELSE /\ error' = Some([kind |-> "no_photos", path |-> 0])
            /\ UNCHANGED <<photo_paths, photos, current_photo, tasks>>
    /\ UNCHANGED <<detectVars, rawVars, loadVars, photoVars, cacheVars>>

\* main.rs:145-178, Message::PhotoSelected(index)
PhotoSelected(index) ==
    /\ handled' = Msg("PhotoSelected", Some(index), None)
    /\ failed' = {}
    /\ IF index < Len(photos)
       THEN /\ current_photo' = Some(index)
            /\ IF At(photos, index) = None
               THEN /\ TotalTasks < MaxTasks
                    /\ tasks' = Issue(tasks, At(photo_paths, index))
               ELSE UNCHANGED tasks
       ELSE UNCHANGED <<current_photo, tasks>>
    /\ UNCHANGED <<photo_paths, photos, error, dialog>>
    /\ UNCHANGED <<detectVars, rawVars, loadVars, photoVars, cacheVars>>

\* main.rs:179-213, Message::NextPhoto: the handler returns the Command
\* of an unloaded next photo before it assigns current_photo
NextPhoto ==
    /\ handled' = Msg("NextPhoto", None, None)
    /\ failed' = {}
    /\ IF current_photo # None /\ current_photo[1] + 1 < Len(photos)
       THEN LET next == current_photo[1] + 1
            IN  IF At(photos, next) = None
                THEN /\ TotalTasks < MaxTasks
                     /\ tasks' = Issue(tasks, At(photo_paths, next))
                     /\ UNCHANGED current_photo
                ELSE /\ current_photo' = Some(next)
                     /\ UNCHANGED tasks
       ELSE UNCHANGED <<current_photo, tasks>>
    /\ UNCHANGED <<photo_paths, photos, error, dialog>>
    /\ UNCHANGED <<detectVars, rawVars, loadVars, photoVars, cacheVars>>

\* main.rs:214-247, Message::PreviousPhoto
PreviousPhoto ==
    /\ handled' = Msg("PreviousPhoto", None, None)
    /\ failed' = {}
    /\ IF current_photo # None /\ current_photo[1] > 0
       THEN LET prev == current_photo[1] - 1
            IN  /\ current_photo' = Some(prev)
                /\ IF At(photos, prev) = None
                   THEN /\ TotalTasks < MaxTasks
                        /\ tasks' = Issue(tasks, At(photo_paths, prev))
                   ELSE UNCHANGED tasks
       ELSE UNCHANGED <<current_photo, tasks>>
    /\ UNCHANGED <<photo_paths, photos, error, dialog>>
    /\ UNCHANGED <<detectVars, rawVars, loadVars, photoVars, cacheVars>>

\* the errors update is sent: the dialog was cancelled (main.rs:97), or
\* the decode task of a path failed (main.rs:135, 171, 204, 239)
ErrorMessages ==
    {[kind |-> "no_dir", path |-> 0]}
    \cup {[kind |-> "failed", path |-> p] : p \in UiPaths}

\* main.rs:251, the Command the Error handler returns: none
ErrorCommandRetry(e) ==
    IF e.kind = "failed" THEN {e.path} ELSE {}
ErrorCommand(e) ==
    {}

\* whether path p has an index whose photos slot is unset
Unset(p) ==
    /\ Position(photo_paths, p) # None
    /\ At(photos, Position(photo_paths, p)[1]) = None

\* main.rs:248-252, Message::Error(error)
Error(e) ==
    /\ e \in ErrorMessages
    /\ IF e.kind = "no_dir"
       THEN /\ dialog > 0
            /\ dialog' = dialog - 1
            /\ UNCHANGED <<tasks, failed>>
       ELSE /\ tasks[e.path] > 0
            /\ tasks' = [q \in UiPaths |->
                           Complete(tasks, e.path)[q]
                             + (IF q \in ErrorCommand(e) THEN 1 ELSE 0)]
            /\ failed' = IF Unset(e.path)
                         THEN failed \cup
                                {[path |-> e.path,
                                  alone |-> tasks[e.path] = 1]}
                         ELSE failed
            /\ UNCHANGED dialog
    /\ handled' = Msg("Error", Some(e), None)
    /\ error' = Some(e)
    /\ UNCHANGED <<photo_paths, photos, current_photo>>
    /\ UNCHANGED <<detectVars, rawVars, loadVars, photoVars, cacheVars>>

\* main.rs:255-269, the photos after ImageLoaded(p, Some(img)): the slot
\* at the position of p gets a new Photo with the image, or the Photo
\* there gets the image
ImageLoadedAtCurrent(p, img) ==
    IF current_photo # None
    THEN [photos EXCEPT ![current_photo[1] + 1] = Some(PhotoWith(p, img))]
    ELSE photos
ImageLoadedPhotos(p, img) ==
    LET pos == Position(photo_paths, p)
    IN  IF pos = None THEN photos
        ELSE IF At(photos, pos[1]) = None
        THEN [photos EXCEPT ![pos[1] + 1] = Some(PhotoWith(p, img))]
        ELSE [photos EXCEPT ![pos[1] + 1] =
                 Some([At(photos, pos[1])[1] EXCEPT !.image = Some(img)])]

\* main.rs:253-271, Message::ImageLoaded(path, image)
ImageLoaded(p, img) ==
    /\ tasks[p] > 0
    /\ tasks' = Complete(tasks, p)
    /\ handled' = Msg("ImageLoaded", Some(p), Some(img))
    /\ photos' = ImageLoadedPhotos(p, img)
    /\ UNCHANGED <<photo_paths, current_photo, error, dialog, failed>>
    /\ UNCHANGED <<detectVars, rawVars, loadVars, photoVars, cacheVars>>

NextUI ==
    \/ LoadDirectory
    \/ \E paths \in Directories : DirectoryLoaded(paths)
    \/ \E index \in 0..MaxIndex : PhotoSelected(index)
    \/ NextPhoto
    \/ PreviousPhoto
    \/ \E e \in ErrorMessages : Error(e)
    \/ \E p \in UiPaths, img \in Images : ImageLoaded(p, img)

SpecUI == InitUI /\ [][NextUI]_vars

\* the entry of path p
EntryOf(c, p) == c[Find(c, p)]

\* the path of ps accessed (hit or inserted) the longest ago
LeastRecentlyAccessed(ps) ==
    accessed[CHOOSE i \in 1..Len(accessed) :
                /\ accessed[i] \in ps
                /\ \A j \in 1..(i - 1) : accessed[j] \notin ps]

\* C16: a call returns the cached entry only when the file's modification
\* time is readable and not later than the entry's stored time; a call that
\* finds the time advanced, missing or unreadable goes on to decode, and a
\* decode leaves the time its call read as the entry's stored time.
C16_StaleIsDecodedAgain ==
    /\ got.outcome = "hit"
         => /\ got.hadEntry
            /\ got.current # Unreadable
            /\ got.stored # Unreadable
            /\ got.current <= got.stored
    /\ (got.outcome \in {"hit", "miss"} /\ got.hadEntry
          /\ (got.current = Unreadable \/ got.current > got.stored))
         => /\ got.outcome = "miss"
            /\ \E t \in decoding :
                  t.path = got.path /\ t.mtime = got.current
    /\ got.outcome = "decoded"
         => /\ Find(cache, got.path) > 0
            /\ EntryOf(cache, got.path).mtime = got.current
            /\ EntryOf(cache, got.path).image = got.image

\* the file of a cached path was written and the path decoded again
C16_Witness ==
    /\ got.outcome = "decoded"
    /\ got.hadEntry
    /\ got.stored # Unreadable /\ got.current # Unreadable
    /\ got.current > got.stored
    /\ EntryOf(cache, got.path).mtime = got.current

\* C17: the cache holds at most 32 entries and one entry per path; an
\* insertion into a full cache evicts exactly the entry accessed (hit or
\* inserted) the longest ago, any other insertion and a hit evict nothing.
C17_BoundedLru ==
    /\ Len(cache) <= CacheCapacity
    /\ \A i, j \in 1..Len(cache) : cache[i].path = cache[j].path => i = j
    /\ got.outcome = "decoded"
         => IF got.path \notin got.before
                 /\ Cardinality(got.before) = CacheCapacity
            THEN /\ got.evicted = LeastRecentlyAccessed(got.before)
                 /\ CachedPaths(cache)
                      = (got.before \ {got.evicted}) \cup {got.path}
            ELSE /\ got.evicted = 0
                 /\ CachedPaths(cache) = got.before \cup {got.path}
    /\ got.outcome \in {"hit", "miss", "error"}
         => CachedPaths(cache) = got.before

\* paths #1..#32 cached, a hit on #1, then #33 inserted: #2 is evicted
C17_Witness ==
    /\ got.outcome = "decoded"
    /\ got.path = CacheCapacity + 1
    /\ got.before = 1..CacheCapacity
    /\ got.evicted = 2
    /\ 1 \in CachedPaths(cache)
    /\ Len(cache) = CacheCapacity

----------------------------------------------------------------------------
(* Claims about the application's update.                                  *)

\* the step is update handling ImageLoaded: it ends a decode task
ImageLoadedStep == handled'.msg = "ImageLoaded" /\ tasks' # tasks

\* the effect the claim allows to ImageLoaded(p, Some(img))
ImageLoadedFrame(p, img) ==
    LET pos == Position(photo_paths, p)
    IN  /\ photo_paths' = photo_paths
        /\ current_photo' = current_photo
        /\ error' = error
        /\ Len(photos') = Len(photos)
        /\ \A j \in 0..(Len(photos) - 1) :
              (pos = None \/ j # pos[1]) => At(photos', j) = At(photos, j)
        /\ pos # None
             => /\ At(photos', pos[1]) # None
                /\ At(photos', pos[1])[1].path = p
                /\ At(photos', pos[1])[1].image = Some(img)

\* C19: handling ImageLoaded(path, image) changes at most the photos slot
\* at the index of path in photo_paths, which gets the image, and nothing
\* when path is not in photo_paths; photo_paths, current_photo, error and
\* the other slots stay as they are.
C19_ImageLoadedByPath ==
    [][ImageLoadedStep
         => ImageLoadedFrame(handled'.arg[1], handled'.image[1])]_vars

\* a result arrived for a path of a directory loaded before the current one
C19_Witness ==
    /\ handled.msg = "ImageLoaded"
    /\ photo_paths # <<>>
    /\ Position(photo_paths, handled.arg[1]) = None
    /\ \A i \in 1..Len(photos) : photos[i] = None

NavigationMessages ==
    {"DirectoryLoaded", "PhotoSelected", "NextPhoto", "PreviousPhoto"}

\* a step issues a decode task only in handling a navigation message, and
\* the Error handler ends one task and issues none
NoAutomaticRetry ==
    /\ (\E p \in UiPaths : tasks'[p] > tasks[p])
         => handled'.msg \in NavigationMessages
    /\ (handled'.msg = "Error" /\ tasks' # tasks)
         => tasks' = Complete(tasks, handled'.arg[1].path)

\* PhotoSelected(i) on an unset slot issues a decode task for its path
ReRequest ==
    (handled'.msg = "PhotoSelected" /\ <<tasks, current_photo>>' #
                                         <<tasks, current_photo>>
       /\ handled'.arg[1] < Len(photos)
       /\ At(photos, handled'.arg[1]) = None)
    => tasks' = Issue(tasks, At(photo_paths, handled'.arg[1]))

----------------------------------------------------------------------------
(* Claims about the two passes of the RAW conversion.                      *)

\* an integer sensor image with a CFA tile and one sample per pixel was
\* converted
ConvertedCfa ==
    /\ Converted
    /\ sensor.kind = "Integer"
    /\ sensor.cfa.width >= 1 /\ sensor.cfa.height >= 1
    /\ Len(sensor.data) = sensor.width * sensor.height

\* the normalized, white-balanced sample of pixel i for channel c
OwnSample(img, i, c) ==
    ApplyWb(Normalize(img.data[i + 1], img.black, img.white), img.wb[c + 1])

\* C21: at every pixel the first pass stores the normalized, white-balanced
\* sample into the channel the image's own CFA gives at the pixel, the
\* channel the demosaic pass takes as sampled there, and leaves 0.0 in the
\* other two channels.
C21_FirstPassUsesImageCfa ==
    ConvertedCfa
    => \A i \in Pixels(sensor) :
          LET x == i % sensor.width
              y == i \div sensor.width
              c == DemosaicColor(sensor, x, y)
              pl == FirstPass(sensor)
              chan(k) == IF k = 0 THEN pl.red
                         ELSE IF k = 1 THEN pl.green ELSE pl.blue
          IN  /\ chan(c)[i] = OwnSample(sensor, i, c)
              /\ \A k \in {0, 1, 2} \ {c} : chan(k)[i] = 0

\* channel k of three channel buffers
Channel(pl, k) ==
    IF k = 0 THEN pl.red ELSE IF k = 1 THEN pl.green ELSE pl.blue

\* C25: the demosaic pass leaves the channel value the first pass stored
\* from the pixel's own sample as it is, at every pixel, also when that
\* value is 0.0.
C25_OwnSampleKept ==
    ConvertedCfa
    => \A i \in Pixels(sensor) :
          LET c == FirstPassColor(i % sensor.width, i \div sensor.width)
          IN  Channel(raw_out.result.planes, c)[i]
                = Channel(FirstPass(sensor), c)[i]

\* raw.rs:85-86, 152-153, 160-161: the usize subtractions height - 1 and
\* width - 1 go below 0
Underflows(img) == img.width = 0 \/ img.height = 0

\* raw.rs:85-88: the indexes of the samples logged, y * width + x
SampleIndexes(img) ==
    { y * img.width + x :
        y \in {0, img.height \div 2, img.height - 1},
        x \in {0, img.width \div 2, img.width - 1} }

\* raw.rs:160-251: the indexes the second pass reads or writes, pixel_idx
\* and its four axis and four diagonal neighbours at every interior pixel
SecondPassIndexes(img) ==
    IF Underflows(img) THEN {}
    ELSE Interior(img)
         \cup { i + AxisOffsets(img.width)[k] :
                  i \in Interior(img), k \in 1..4 }
         \cup { i + DiagOffsets(img.width)[k] :
                  i \in Interior(img), k \in 1..4 }

\* C22: for an image of any size, 0, 1 and 2 included, no subtraction of
\* the RAW decode underflows, every index it computes into the samples and
\* the channel buffers is in [0, width*height), and the decode does not
\* panic.
C22_IndexesInRange ==
    (ConvertDone /\ sensor.kind = "Integer"
       /\ sensor.cfa.width >= 1 /\ sensor.cfa.height >= 1
       /\ Len(sensor.data) = sensor.width * sensor.height)
    => /\ ~Underflows(sensor)
       /\ SampleIndexes(sensor) \subseteq Pixels(sensor)
       /\ SecondPassIndexes(sensor) \subseteq Pixels(sensor)
       /\ raw_out.result.status # "panic"

----------------------------------------------------------------------------
(* Claims about the application's indexes.                                 *)

\* C23: in every state photos and photo_paths have the same length and
\* current_photo is None or an index below that length, so that the
\* photos[current] of view is in range.
C23_CurrentInRange ==
    /\ Len(photos) = Len(photo_paths)
    /\ current_photo = None \/ current_photo[1] < Len(photos)

\* the last photo is current and a PhotoSelected beyond it was handled
C23_Witness ==
    /\ Len(photos) >= 2
    /\ current_photo = Some(Len(photos) - 1)
    /\ handled.msg = "PhotoSelected"
    /\ handled.arg[1] >= Len(photos)

\* C24: handling NextPhoto with current_photo = Some(i) and i+1 below the
\* number of photos sets current_photo to Some(i+1), whether or not that
\* photo is loaded; handling PreviousPhoto with i > 0 sets it to Some(i-1).
C24_NextPhotoAdvances ==
    [][/\ (handled'.msg = "NextPhoto" /\ current_photo # None
              /\ current_photo[1] + 1 < Len(photos))
            => current_photo' = Some(current_photo[1] + 1)
       /\ (handled'.msg = "PreviousPhoto" /\ current_photo # None
              /\ current_photo[1] > 0)
            => current_photo' = Some(current_photo[1] - 1)]_vars

====
